---- MODULE Spec2Model ----
(***************************************************************************)
(* A model of the store of DBManager (src/src/database/db_manager.py): the  *)
(* tables as seen through the single shared sqlite3 connection, the last   *)
(* committed snapshot of them, the operations that read and write them,    *)
(* and SimpleBrowserManager (src/src/core/simple_browser_manager.py).      *)
(***************************************************************************)
EXTENDS Integers, Sequences, FiniteSets, TLC

\* ------------------------------------------------------------------ bounds
MaxItems == 3
MaxLen == 3
MaxReplace == 1
MaxSensitive == 2
MaxCascade == 1
MaxHistory == 4
MaxCategories == 3
MaxDials == 4
MaxProfiles == 3
MaxBookmarks == 3

\* ------------------------------------------------------------- vocabulary
Categories == {1, 2}
ListNames == {"A", "B"}
NULL == "NULL"
ItemTypes == {"TEXT", "URL", "CODE", "PATH"}

\* A content value: a text under a number of encryption layers.
Plain(t) == [text |-> t, layers |-> 0]

\* Encryption Gateway (core.encryption_manager is not part of the sources).
encrypt(v) == [v EXCEPT !.layers = @ + 1]
is_encrypted(v) == v.layers > 0
decrypt(v) == [v EXCEPT !.layers = @ - 1]
\* decrypt raises on a value that is not ciphertext.
DecryptionError(v) == v.layers = 0

Truthy(v) == v.text # ""
\* Truth value of an optional name: None and '' are false.
TruthyName(name) == name \notin {NULL, ""}

\* item_data dicts handed to create_list / add_item
OkSpec == [content |-> Plain("s"), is_sensitive |-> FALSE, type |-> "TEXT"]
SensitiveSpec == [content |-> Plain("s"), is_sensitive |-> TRUE, type |-> "TEXT"]
EmptySensitiveSpec == [content |-> Plain(""), is_sensitive |-> TRUE, type |-> "TEXT"]
BadTypeSpec == [content |-> Plain("s"), is_sensitive |-> FALSE, type |-> "text"]

SeqsUpTo(S, n) == UNION {[1..k -> S] : k \in 0..n}

VARIABLES items, sqlite_sequence, committed, last, pc, call, observed,
          categories, pinned_panels, clipboard_history, sequences,
          settings, browser_config, manager, now,
          speed_dials, browser_profiles, bookmarks, autoincrement,
          profile_manager, storage

vars == <<items, sqlite_sequence, committed, last, pc, call, observed,
          categories, pinned_panels, clipboard_history, sequences,
          settings, browser_config, manager, now,
          speed_dials, browser_profiles, bookmarks, autoincrement,
          profile_manager, storage>>

\* The tables a transaction of the item store covers.
Tables == {"items", "sqlite_sequence", "categories", "pinned_panels",
           "clipboard_history", "sequences"}

\* What the item and list operations never touch.
\* The embedded browser's tables, the profile manager object and the storage
\* directories on disk.
browserVars == <<speed_dials, browser_profiles, bookmarks, autoincrement,
                 profile_manager, storage>>
configVars == <<settings, browser_config, manager, now, browserVars>>
storeVars == <<categories, pinned_panels, clipboard_history, sequences>>

\* ------------------------------------------------------------ table access
Put(f, k, v) == [x \in (DOMAIN f) \cup {k} |-> IF x = k THEN v ELSE f[x]]
Remove(f, S) == [x \in (DOMAIN f) \ S |-> f[x]]

\* SQL equality: NULL equals nothing.
SqlEq(a, b) == a # NULL /\ b # NULL /\ a = b

\* The is_list = 1 rows of (category_id, list_group).
ListMembers(tbl, category_id, list_group) ==
    {id \in DOMAIN tbl : /\ tbl[id].category_id = category_id
                         /\ SqlEq(tbl[id].list_group, list_group)
                         /\ tbl[id].is_list}

\* --------------------------------------------------- connection primitives
\* A connection state c: the tables as the connection sees them, the last
\* committed snapshot, and what the running operation did so far.
Commit(c) ==
    [c EXCEPT !.committed = [t \in Tables |-> c[t]]]

Rollback(c) ==
    [f \in DOMAIN c |-> IF f \in Tables THEN c.committed[f] ELSE c[f]]

Write(c, tbl) == [c EXCEPT !.items = tbl, !.writes = @ + 1]
WriteTo(c, table, tbl) == [c EXCEPT ![table] = tbl, !.writes = @ + 1]
Fail(c) == [c EXCEPT !.failed = TRUE]
Ret(c, result) == [c |-> c, result |-> result]
Raised(result) == result \in {"ValueError", "IntegrityError", "OperationalError"}

\* DBManager.transaction: the exit of the with-block, given the body's outcome.
transaction(body) ==
    IF Raised(body.result)
    THEN Ret([Rollback(body.c) EXCEPT !.txn = "rollback"], body.result)
    ELSE Ret([Commit(body.c) EXCEPT !.txn = "commit"], body.result)

\* ------------------------------------------------------------ foreign keys
\* A clipboard_history row that refers to no item (item_id IS NULL).
NoItem == 0

\* clipboard_history.item_id ... ON DELETE SET NULL, for the deleted items ids.
SetNull(history, ids) ==
    [h \in DOMAIN history |->
        IF history[h].item_id \in ids
        THEN [history[h] EXCEPT !.item_id = NoItem] ELSE history[h]]

\* DELETE of the items ids with the foreign key actions it triggers.
DeleteItems(c, ids) ==
    [c EXCEPT !.items = Remove(c.items, ids),
              !.clipboard_history = SetNull(c.clipboard_history, ids),
              !.writes = @ + 1]

\* ------------------------------------------------------------------- items
InsertFails(c, category_id, spec) ==
    category_id \notin DOMAIN c.categories \/ spec.type \notin ItemTypes

add_item(c, category_id, spec, is_list, list_group, orden_lista) ==
    LET content == IF spec.is_sensitive /\ Truthy(spec.content)
                   THEN encrypt(spec.content) ELSE spec.content
        id == c.sqlite_sequence + 1
        row == [category_id |-> category_id, content |-> content,
                is_sensitive |-> spec.is_sensitive, is_active |-> TRUE,
                is_list |-> is_list, list_group |-> list_group,
                orden_lista |-> orden_lista]
    IN IF InsertFails(c, category_id, spec)
       THEN Ret(Fail(c), "IntegrityError")
       ELSE Ret(Commit([Write(c, Put(c.items, id, row)) EXCEPT !.sqlite_sequence = id]),
                "id")

delete_item(c, item_id) ==
    Ret(Commit(DeleteItems(c, {item_id})), "None")

\* update_item(item_id, **kwargs); kwargs is a record of the fields supplied.
allowed_fields == {"content", "is_sensitive", "is_active", "is_list",
                   "list_group", "orden_lista"}

\* update_item that encrypts new content without asking is_encrypted.
update_item_always_encrypts(c, item_id, kwargs) ==
    IF item_id \notin DOMAIN c.items
    THEN Ret(c, "None")
    ELSE LET current_item == c.items[item_id]
             will_be_sensitive == IF "is_sensitive" \in DOMAIN kwargs
                                  THEN kwargs.is_sensitive
                                  ELSE current_item.is_sensitive
             value(field) ==
                 IF /\ field = "content"
                    /\ will_be_sensitive
                    /\ Truthy(kwargs.content)
                 THEN encrypt(kwargs.content)
                 ELSE kwargs[field]
             updates == (DOMAIN kwargs) \cap allowed_fields
             row == [field \in DOMAIN current_item |->
                        IF field \in updates THEN value(field)
                        ELSE current_item[field]]
         IN IF updates = {}
            THEN Ret(c, "None")
            ELSE Ret(Commit(Write(c, Put(c.items, item_id, row))), "None")

update_item(c, item_id, kwargs) ==
    IF item_id \notin DOMAIN c.items
    THEN Ret(c, "None")
    ELSE LET current_item == c.items[item_id]
             will_be_sensitive == IF "is_sensitive" \in DOMAIN kwargs
                                  THEN kwargs.is_sensitive
                                  ELSE current_item.is_sensitive
             value(field) ==
                 IF /\ field = "content"
                    /\ will_be_sensitive
                    /\ Truthy(kwargs.content)
                    /\ ~is_encrypted(kwargs.content)
                 THEN encrypt(kwargs.content)
                 ELSE kwargs[field]
             updates == (DOMAIN kwargs) \cap allowed_fields
             row == [field \in DOMAIN current_item |->
                        IF field \in updates THEN value(field)
                        ELSE current_item[field]]
         IN IF updates = {}
            THEN Ret(c, "None")
            ELSE Ret(Commit(Write(c, Put(c.items, item_id, row))), "None")

\* ------------------------------------------------------------------- reads
DECRYPTION_ERROR == Plain("[DECRYPTION ERROR]")

\* The per-row decryption step of a read that skips the except clause: the
\* stored content is handed out when decrypt raises.
DecryptContentWithoutPlaceholder(row) ==
    IF row.is_sensitive /\ Truthy(row.content)
    THEN IF DecryptionError(row.content)
         THEN row.content
         ELSE decrypt(row.content)
    ELSE row.content

\* The per-row decryption step of a read: the content handed to the caller.
DecryptContent(row) ==
    IF row.is_sensitive /\ Truthy(row.content)
    THEN IF DecryptionError(row.content)
         THEN DECRYPTION_ERROR
         ELSE decrypt(row.content)
    ELSE row.content

\* The rows ids of tbl in ascending id order, as dicts <<id, content>>; the
\* content is decrypted when the read has a decryption step.
RECURSIVE ResultRows(_, _, _)
ResultRows(tbl, ids, decrypting) ==
    IF ids = {}
    THEN <<>>
    ELSE LET first == CHOOSE id \in ids : \A other \in ids : id <= other
         IN <<[id |-> first,
               content |-> IF decrypting THEN DecryptContent(tbl[first])
                           ELSE tbl[first].content]>>
            \o ResultRows(tbl, ids \ {first}, decrypting)

Reverse(rows) == [k \in 1..Len(rows) |-> rows[Len(rows) + 1 - k]]

\* Optional[Dict]: a sequence of at most one row.
get_item(tbl, item_id) ==
    ResultRows(tbl, {item_id} \cap DOMAIN tbl, TRUE)

get_items_by_category(tbl, category_id) ==
    ResultRows(tbl, {id \in DOMAIN tbl : tbl[id].category_id = category_id}, TRUE)

\* cats is the categories table the items are joined with.
get_all_items(tbl, cats, include_inactive) ==
    Reverse(ResultRows(tbl, {id \in DOMAIN tbl :
                                 /\ tbl[id].category_id \in DOMAIN cats
                                 /\ \/ cats[tbl[id].category_id].is_active
                                    \/ include_inactive}, TRUE))

\* search_items with the queries "" (the pattern %% matches every label) and a
\* text (matched against the stored content); it has no decryption step.
search_items(tbl, cats, search_query) ==
    ResultRows(tbl, {id \in DOMAIN tbl :
                         /\ tbl[id].category_id \in DOMAIN cats
                         /\ \/ search_query = ""
                            \/ /\ ~is_encrypted(tbl[id].content)
                               /\ tbl[id].content.text = search_query}, FALSE)

\* ------------------------------------------------------------------- lists
\* The uniqueness query without its category_id filter.
is_list_name_unique_any_category(tbl, category_id, list_name, exclude_list) ==
    LET named == UNION {ListMembers(tbl, c, list_name) : c \in Categories}
        count == IF exclude_list # NULL
                 THEN Cardinality({id \in named : tbl[id].list_group # exclude_list})
                 ELSE Cardinality(named)
    IN count = 0

is_list_name_unique(tbl, category_id, list_name, exclude_list) ==
    LET count == IF TruthyName(exclude_list)
                 THEN Cardinality({id \in ListMembers(tbl, category_id, list_name) :
                                       tbl[id].list_group # exclude_list})
                 ELSE Cardinality(ListMembers(tbl, category_id, list_name))
    IN count = 0

\* The loop of create_list from position orden on: add_item per item_data.
RECURSIVE InsertFrom(_, _, _, _, _)
InsertFrom(c, category_id, list_name, items_data, orden) ==
    IF orden > Len(items_data)
    THEN Ret(c, "ids")
    ELSE LET r == add_item(c, category_id, items_data[orden], TRUE, list_name, orden)
         IN IF Raised(r.result)
            THEN r
            ELSE InsertFrom(r.c, category_id, list_name, items_data, orden + 1)

create_list(c, category_id, list_name, items_data) ==
    IF Len(items_data) < 1
    THEN Ret(c, "ValueError")
    ELSE IF ~is_list_name_unique(c.items, category_id, list_name, NULL)
    THEN Ret(c, "ValueError")
    ELSE transaction(InsertFrom(c, category_id, list_name, items_data, 1))

\* get_list_items: the active members in position order, as dicts
\* <<id, orden_lista, content>>.
RECURSIVE SortByOrden(_, _)
SortByOrden(tbl, ids) ==
    IF ids = {}
    THEN <<>>
    ELSE LET first == CHOOSE id \in ids :
                          \A other \in ids :
                              \/ tbl[id].orden_lista < tbl[other].orden_lista
                              \/ /\ tbl[id].orden_lista = tbl[other].orden_lista
                                 /\ id <= other
         IN <<[id |-> first, orden_lista |-> tbl[first].orden_lista,
               content |-> DecryptContent(tbl[first])]>>
            \o SortByOrden(tbl, ids \ {first})

get_list_items(tbl, category_id, list_group) ==
    SortByOrden(tbl, {id \in ListMembers(tbl, category_id, list_group) :
                          tbl[id].is_active})

\* The ranged UPDATE with its lower end off by one (orden_lista > new_orden).
ShiftRangeOffByOne(tbl, category_id, list_group, new_orden, old_orden) ==
    [id \in DOMAIN tbl |->
        LET row == tbl[id]
            same == /\ row.category_id = category_id
                    /\ SqlEq(row.list_group, list_group)
        IN IF new_orden < old_orden
           THEN IF same /\ row.orden_lista > new_orden /\ row.orden_lista < old_orden
                THEN [row EXCEPT !.orden_lista = @ + 1] ELSE row
           ELSE IF same /\ row.orden_lista > old_orden /\ row.orden_lista <= new_orden
                THEN [row EXCEPT !.orden_lista = @ - 1] ELSE row]

\* The ranged UPDATE of reorder_list_item.
ShiftRange(tbl, category_id, list_group, new_orden, old_orden) ==
    [id \in DOMAIN tbl |->
        LET row == tbl[id]
            same == /\ row.category_id = category_id
                    /\ SqlEq(row.list_group, list_group)
        IN IF new_orden < old_orden
           THEN IF same /\ row.orden_lista >= new_orden /\ row.orden_lista < old_orden
                THEN [row EXCEPT !.orden_lista = @ + 1] ELSE row
           ELSE IF same /\ row.orden_lista > old_orden /\ row.orden_lista <= new_orden
                THEN [row EXCEPT !.orden_lista = @ - 1] ELSE row]

\* The point UPDATE of reorder_list_item.
SetOrden(tbl, item_id, new_orden) ==
    [tbl EXCEPT ![item_id].orden_lista = new_orden]

\* reorder_list_item without the old_orden == new_orden short-circuit.
reorder_list_item_no_short_circuit(c, item_id, new_orden, io_error) ==
    IF item_id \notin DOMAIN c.items \/ ~c.items[item_id].is_list
    THEN Ret(c, "False")
    ELSE LET item == c.items[item_id]
             old_orden == item.orden_lista
             shifted == Write(c, ShiftRange(c.items, item.category_id,
                                            item.list_group, new_orden, old_orden))
             body == IF io_error = "shift"
                     THEN Ret(Fail(c), "OperationalError")
                     ELSE IF io_error = "set"
                     THEN Ret(Fail(shifted), "OperationalError")
                     ELSE Ret(Write(shifted, SetOrden(shifted.items, item_id, new_orden)),
                              "True")
             t == transaction(body)
         IN Ret(t.c, IF Raised(t.result) THEN "False" ELSE t.result)

\* reorder_list_item that does not ask whether the item is part of a list.
reorder_list_item_of_any_item(c, item_id, new_orden, io_error) ==
    IF item_id \notin DOMAIN c.items
    THEN Ret(c, "False")
    ELSE LET item == c.items[item_id]
             old_orden == item.orden_lista
             shifted == Write(c, ShiftRange(c.items, item.category_id,
                                            item.list_group, new_orden, old_orden))
             body == IF io_error = "shift"
                     THEN Ret(Fail(c), "OperationalError")
                     ELSE IF io_error = "set"
                     THEN Ret(Fail(shifted), "OperationalError")
                     ELSE Ret(Write(shifted, SetOrden(shifted.items, item_id, new_orden)),
                              "True")
             t == transaction(body)
         IN IF old_orden = new_orden
            THEN Ret(c, "True")
            ELSE Ret(t.c, IF Raised(t.result) THEN "False" ELSE t.result)

\* io_error names the statement on which the engine raises ("none": no failure).
reorder_list_item(c, item_id, new_orden, io_error) ==
    IF item_id \notin DOMAIN c.items \/ ~c.items[item_id].is_list
    THEN Ret(c, "False")
    ELSE LET item == c.items[item_id]
             old_orden == item.orden_lista
             shifted == Write(c, ShiftRange(c.items, item.category_id,
                                            item.list_group, new_orden, old_orden))
             body == IF io_error = "shift"
                     THEN Ret(Fail(c), "OperationalError")
                     ELSE IF io_error = "set"
                     THEN Ret(Fail(shifted), "OperationalError")
                     ELSE Ret(Write(shifted, SetOrden(shifted.items, item_id, new_orden)),
                              "True")
             t == transaction(body)
         IN IF old_orden = new_orden
            THEN Ret(c, "True")
            ELSE Ret(t.c, IF Raised(t.result) THEN "False" ELSE t.result)

delete_list(c, category_id, list_group, io_error) ==
    LET body == IF io_error = "delete"
                THEN Ret(Fail(c), "OperationalError")
                ELSE Ret(DeleteItems(c, ListMembers(c.items, category_id, list_group)),
                         "True")
        t == transaction(body)
    IN Ret(t.c, IF Raised(t.result) THEN "False" ELSE t.result)

\* The renaming UPDATE without its category_id filter.
RenameGroupAnyCategory(tbl, category_id, old_list_group, new_list_group) ==
    [id \in DOMAIN tbl |->
        IF \E c \in Categories : id \in ListMembers(tbl, c, old_list_group)
        THEN [tbl[id] EXCEPT !.list_group = new_list_group] ELSE tbl[id]]

\* The UPDATE of update_list that renames the group.
RenameGroup(tbl, category_id, old_list_group, new_list_group) ==
    [id \in DOMAIN tbl |->
        IF id \in ListMembers(tbl, category_id, old_list_group)
        THEN [tbl[id] EXCEPT !.list_group = new_list_group] ELSE tbl[id]]

\* data = [given |-> items_data is not None, items |-> items_data]
update_list(c, category_id, old_list_group, new_list_group, data, io_error) ==
    LET renaming == TruthyName(new_list_group) /\ new_list_group # old_list_group
        renamed ==
            IF ~renaming
            THEN Ret(c, "True")
            ELSE IF ~is_list_name_unique(c.items, category_id, new_list_group,
                                         old_list_group)
            THEN Ret(c, "ValueError")
            ELSE IF io_error = "rename"
            THEN Ret(Fail(c), "OperationalError")
            ELSE Ret(Write(c, RenameGroup(c.items, category_id, old_list_group,
                                          new_list_group)), "True")
        final_list_name == IF TruthyName(new_list_group) THEN new_list_group
                           ELSE old_list_group
        deleted == delete_list(renamed.c, category_id, final_list_name,
                               IF io_error = "delete" THEN "delete" ELSE "none")
        created == create_list(deleted.c, category_id, final_list_name, data.items)
        body == IF Raised(renamed.result) \/ ~data.given
                THEN renamed
                ELSE IF Raised(created.result) THEN created
                ELSE Ret(created.c, "True")
        t == transaction(body)
    IN Ret(t.c, IF Raised(t.result) THEN "False" ELSE "True")

\* ---------------------------------------------------------------- settings
\* Python values handed to set_setting, and the JSON texts stored for them.
PyInt(n) == [type |-> "int", n |-> n, s |-> ""]
PyStr(t) == [type |-> "str", n |-> 0, s |-> t]
PyBool(b) == [type |-> "bool", n |-> 0, s |-> IF b THEN "True" ELSE "False"]
PyNone == [type |-> "NoneType", n |-> 0, s |-> "None"]

Number(n) == [kind |-> "number", n |-> n, s |-> ""]
String(t) == [kind |-> "string", n |-> 0, s |-> t]
Literal(t) == [kind |-> "literal", n |-> 0, s |-> t]

json_dumps(value) ==
    CASE value.type = "int" -> Number(value.n)
      [] value.type = "str" -> String(value.s)
      [] value.type = "bool" -> Literal(IF value.s = "True" THEN "true" ELSE "false")
      [] OTHER -> Literal("null")

JSONDecodeError(text) ==
    text.kind = "literal" /\ text.s \notin {"true", "false", "null"}

json_loads(text) ==
    CASE text.kind = "number" -> PyInt(text.n)
      [] text.kind = "string" -> PyStr(text.s)
      [] text.s = "true" -> PyBool(TRUE)
      [] text.s = "false" -> PyBool(FALSE)
      [] OTHER -> PyNone

\* The rows of the settings table with key = key.
SettingRows(tbl, key) == {id \in DOMAIN tbl : tbl[id].key = key}

get_setting(tbl, key, default) ==
    IF SettingRows(tbl, key) # {}
    THEN LET first == CHOOSE id \in SettingRows(tbl, key) :
                          \A other \in SettingRows(tbl, key) : id <= other
         IN IF JSONDecodeError(tbl[first].value)
            THEN default
            ELSE json_loads(tbl[first].value)
    ELSE default

\* set_setting with a plain INSERT in place of the ON CONFLICT(key) upsert and
\* no UNIQUE index behind it.
set_setting_insert_only(tbl, key, value) ==
    Put(tbl, Cardinality(DOMAIN tbl) + 1, [key |-> key, value |-> json_dumps(value)])

set_setting(tbl, key, value) ==
    LET value_json == json_dumps(value)
    IN IF SettingRows(tbl, key) # {}
       THEN [id \in DOMAIN tbl |-> IF tbl[id].key = key
                                   THEN [tbl[id] EXCEPT !.value = value_json]
                                   ELSE tbl[id]]
       ELSE Put(tbl, Cardinality(DOMAIN tbl) + 1, [key |-> key, value |-> value_json])

\* The default rows _create_database inserts (those of the keys modelled).
DefaultMaxHistory == 20
InitSettings ==
    (1 :> [key |-> "theme", value |-> String("dark")])
    @@ (2 :> [key |-> "max_history", value |-> Number(DefaultMaxHistory)])

\* ----------------------------------------------- categories and panels
\* DELETE FROM categories WHERE id = ? with the foreign keys not enforced.
delete_category_without_cascade(c, category_id) ==
    Ret(Commit(WriteTo(c, "categories", Remove(c.categories, {category_id}))), "None")

\* The DELETE cascades to the items and the pinned panels of the category,
\* and the deletion of those items sets the history references to them null.
delete_category(c, category_id) ==
    LET ids == {id \in DOMAIN c.items : c.items[id].category_id = category_id}
        panels == {p \in DOMAIN c.pinned_panels :
                       c.pinned_panels[p].category_id = category_id}
        cascaded == [c EXCEPT !.categories = Remove(c.categories, {category_id}),
                              !.items = Remove(c.items, ids),
                              !.pinned_panels = Remove(c.pinned_panels, panels),
                              !.clipboard_history = SetNull(c.clipboard_history, ids),
                              !.writes = @ + 1]
    IN Ret(Commit(cascaded), "None")

\* The orders ORDER BY order_index can give the categories ids: ascending, those
\* of equal order_index in any order.
RECURSIVE OrderByIndex(_, _)
OrderByIndex(cats, ids) ==
    IF ids = {}
    THEN {<<>>}
    ELSE LET least == {id \in ids : \A other \in ids :
                           cats[id].order_index <= cats[other].order_index}
         IN UNION {{<<first>> \o rest : rest \in OrderByIndex(cats, ids \ {first})} :
                      first \in least}

\* The possible results of get_categories.
get_categories(cats, include_inactive) ==
    OrderByIndex(cats, {id \in DOMAIN cats : cats[id].is_active \/ include_inactive})

\* add_category without an order_index: the next one after the greatest.
add_category(c) ==
    LET id == c.sequences.categories + 1
        indexes == {c.categories[k].order_index : k \in DOMAIN c.categories}
        max_order == IF indexes = {} THEN 0
                     ELSE CHOOSE m \in indexes : \A other \in indexes : other <= m
        row == [order_index |-> max_order + 1, is_active |-> TRUE]
    IN Ret(Commit([WriteTo(c, "categories", Put(c.categories, id, row))
                      EXCEPT !.sequences.categories = id]), "id")

\* update_category(category_id, is_active=is_active)
update_category(c, category_id, is_active) ==
    Ret(Commit(WriteTo(c, "categories",
                       [id \in DOMAIN c.categories |->
                           IF id = category_id
                           THEN [c.categories[id] EXCEPT !.is_active = is_active]
                           ELSE c.categories[id]])), "None")

\* The UPDATE statements k..Len(category_ids) of executemany; the io_error-th
\* one raises (0: none does).
RECURSIVE UpdateOrderFrom(_, _, _, _)
UpdateOrderFrom(c, category_ids, k, io_error) ==
    IF k > Len(category_ids)
    THEN Ret(c, "None")
    ELSE IF k = io_error
    THEN Ret(Fail(c), "OperationalError")
    ELSE UpdateOrderFrom(
            WriteTo(c, "categories",
                    [id \in DOMAIN c.categories |->
                        IF id = category_ids[k]
                        THEN [c.categories[id] EXCEPT !.order_index = k - 1]
                        ELSE c.categories[id]]),
            category_ids, k + 1, io_error)

\* reorder_categories with every UPDATE committed on its own.
reorder_categories_statement_by_statement(c, category_ids, io_error) ==
    LET r == UpdateOrderFrom(c, category_ids, 1, io_error)
    IN Ret(Commit(r.c), r.result)

reorder_categories(c, category_ids, io_error) ==
    transaction(UpdateOrderFrom(c, category_ids, 1, io_error))

save_pinned_panel(c, category_id) ==
    LET id == c.sequences.pinned_panels + 1
        row == [category_id |-> category_id, is_active |-> TRUE]
    IN IF category_id \notin DOMAIN c.categories
       THEN Ret(Fail(c), "IntegrityError")
       ELSE Ret(Commit([WriteTo(c, "pinned_panels", Put(c.pinned_panels, id, row))
                           EXCEPT !.sequences.pinned_panels = id]), "id")

\* ------------------------------------------------------- clipboard history
\* kept is a possible result of SELECT id ... ORDER BY copied_at DESC LIMIT
\* keep_latest: rows of equal copied_at come in any order, a negative LIMIT is
\* no limit.
IsLatest(history, keep_latest, kept) ==
    /\ kept \subseteq DOMAIN history
    /\ Cardinality(kept) = IF keep_latest < 0 \/ keep_latest > Cardinality(DOMAIN history)
                           THEN Cardinality(DOMAIN history) ELSE keep_latest
    /\ \A k \in kept, h \in (DOMAIN history) \ kept :
          history[k].copied_at >= history[h].copied_at

trim_history(c, keep_latest, kept) ==
    Ret(Commit(WriteTo(c, "clipboard_history",
                       Remove(c.clipboard_history, (DOMAIN c.clipboard_history) \ kept))),
        "None")

\* The INSERT of add_to_history.
InsertHistory(c, item_id, content, copied_at) ==
    LET id == c.sequences.clipboard_history + 1
        row == [item_id |-> item_id, content |-> content, copied_at |-> copied_at]
    IN IF item_id # NoItem /\ item_id \notin DOMAIN c.items
       THEN Ret(Fail(c), "IntegrityError")
       ELSE Ret(Commit([WriteTo(c, "clipboard_history",
                                Put(c.clipboard_history, id, row))
                           EXCEPT !.sequences.clipboard_history = id]), "id")

\* add_to_history without its call of trim_history.
add_to_history_without_trim(c, stg, item_id, content, copied_at, kept) ==
    InsertHistory(c, item_id, content, copied_at)

\* stg is the settings table, copied_at the CURRENT_TIMESTAMP of the insert.
add_to_history(c, stg, item_id, content, copied_at, kept) ==
    LET inserted == InsertHistory(c, item_id, content, copied_at)
        max_history == get_setting(stg, "max_history", PyInt(DefaultMaxHistory))
    IN IF Raised(inserted.result)
       THEN inserted
       ELSE Ret(trim_history(inserted.c, max_history.n, kept).c, "id")

\* ------------------------------------------------------------ browser config
DefaultHomeUrl == "https://www.google.com"
DefaultWidth == 500
DefaultHeight == 700
default_config == [home_url |-> DefaultHomeUrl, is_visible |-> FALSE,
                   width |-> DefaultWidth, height |-> DefaultHeight]

\* config.get(key, default) of a dict config.
DictGet(config, key, default) ==
    IF key \in DOMAIN config THEN config[key] ELSE default

\* The row save_browser_config writes for config.
ConfigRow(config) ==
    [key \in DOMAIN default_config |-> DictGet(config, key, default_config[key])]

\* save_browser_config that always inserts a new row.
save_browser_config_insert_only(tbl, config, io_error) ==
    IF io_error = "write"
    THEN [tbl |-> tbl, result |-> "False"]
    ELSE [tbl |-> Put(tbl, Cardinality(DOMAIN tbl) + 1, ConfigRow(config)),
          result |-> "True"]

\* io_error = "write": the UPDATE or INSERT raises.
save_browser_config(tbl, config, io_error) ==
    IF io_error = "write"
    THEN [tbl |-> tbl, result |-> "False"]
    ELSE IF DOMAIN tbl # {}
    THEN LET config_id == CHOOSE id \in DOMAIN tbl : \A other \in DOMAIN tbl : id <= other
         IN [tbl |-> [tbl EXCEPT ![config_id] = ConfigRow(config)], result |-> "True"]
    ELSE [tbl |-> Put(tbl, Cardinality(DOMAIN tbl) + 1, ConfigRow(config)),
          result |-> "True"]

\* get_browser_config: the dict returned and the table it leaves (it saves the
\* defaults when there is no row). io_error = "read": the SELECT raises.
get_browser_config(tbl, io_error) ==
    IF io_error = "read"
    THEN [tbl |-> tbl, config |-> default_config]
    ELSE IF DOMAIN tbl # {}
    THEN LET first == CHOOSE id \in DOMAIN tbl : \A other \in DOMAIN tbl : id <= other
         IN [tbl |-> tbl, config |-> tbl[first]]
    ELSE [tbl |-> save_browser_config(tbl, default_config, io_error).tbl,
          config |-> default_config]

\* ----------------------------------------------------- SimpleBrowserManager
\* mgr is the manager object (its _home_url), tbl the browser_config table.
save_home_url(mgr, tbl, url) ==
    [mgr |-> [mgr EXCEPT !.home_url = url],
     tbl |-> save_browser_config(tbl, [home_url |-> url], "none").tbl,
     result |-> "None"]

set_home_url(mgr, tbl, url) == save_home_url(mgr, tbl, url)

load_home_url(mgr, tbl) ==
    IF mgr.home_url \notin {NULL, ""}
    THEN [mgr |-> mgr, tbl |-> tbl, result |-> mgr.home_url]
    ELSE LET got == get_browser_config(tbl, "none")
         IN [mgr |-> [mgr EXCEPT !.home_url = got.config.home_url],
             tbl |-> got.tbl, result |-> got.config.home_url]

\* -------------------------------------------------------------- speed dials
\* get_speed_dials: SELECT ... ORDER BY position ASC. The ids in every order
\* the engine may return them in: rows of equal position come in any order.
RECURSIVE OrderByPosition(_, _)
OrderByPosition(tbl, ids) ==
    IF ids = {}
    THEN {<<>>}
    ELSE UNION {{<<first>> \o rest : rest \in OrderByPosition(tbl, ids \ {first})} :
                   first \in {id \in ids :
                                 \A other \in ids :
                                     tbl[id].position <= tbl[other].position}}

get_speed_dials(tbl) == OrderByPosition(tbl, DOMAIN tbl)

\* add_speed_dial: the table it leaves for the new id.
add_speed_dial(tbl, id) ==
    LET positions == {tbl[d].position : d \in DOMAIN tbl}
        next_position == IF positions = {} THEN 0
                         ELSE (CHOOSE m \in positions :
                                   \A other \in positions : m >= other) + 1
    IN Put(tbl, id, [position |-> next_position])

\* The loop of _reorder_speed_dials from the index-th row (0-based) of the
\* listing rows, whose rows carry the positions read by get_speed_dials.
RECURSIVE RenumberFrom(_, _, _, _)
RenumberFrom(tbl, read, rows, index) ==
    IF index >= Len(rows)
    THEN tbl
    ELSE LET sd == rows[index + 1]
         IN RenumberFrom(IF read[sd].position # index
                         THEN [tbl EXCEPT ![sd].position = index] ELSE tbl,
                         read, rows, index + 1)

\* _reorder_speed_dials that leaves the positions as they are.
reorder_speed_dials_skipped(tbl, rows) == tbl

\* _reorder_speed_dials, rows being what its get_speed_dials returned.
reorder_speed_dials(tbl, rows) == RenumberFrom(tbl, tbl, rows, 0)

\* The table after the DELETE / the UPDATE and before the renumbering.
DeleteDial(tbl, speed_dial_id) == Remove(tbl, {speed_dial_id})
SetPosition(tbl, speed_dial_id, new_position) ==
    IF speed_dial_id \in DOMAIN tbl
    THEN [tbl EXCEPT ![speed_dial_id].position = new_position] ELSE tbl

delete_speed_dial(tbl, speed_dial_id, rows) ==
    [tbl |-> reorder_speed_dials(DeleteDial(tbl, speed_dial_id), rows),
     result |-> "True"]

reorder_speed_dial(tbl, speed_dial_id, new_position, rows) ==
    [tbl |-> reorder_speed_dials(SetPosition(tbl, speed_dial_id, new_position),
                                 rows),
     result |-> "True"]

\* --------------------------------------------------------- browser profiles
\* re.sub(r'[^\w\-]', '_', name.lower()) for the profile names used here.
safe_name(name) ==
    CASE name = "Default" -> "default"
      [] name = "Work" -> "work"
      [] name = "work" -> "work"
      [] name = "My Work" -> "my_work"

\* No profile: None as a profile id.
NoProfile == 0

\* get_profile_by_id returns a row (true) or None.
Found(tbl, profile_id) == profile_id \in DOMAIN tbl

\* get_default_profile: the id of a row with is_default = 1 (LIMIT 1), or None.
get_default_profile(tbl) ==
    IF \E id \in DOMAIN tbl : tbl[id].is_default
    THEN CHOOSE id \in DOMAIN tbl :
             /\ tbl[id].is_default
             /\ \A other \in DOMAIN tbl : tbl[other].is_default => id <= other
    ELSE NoProfile

\* add_browser_profile(name) with the storage path auto-generated; id is the
\* next AUTOINCREMENT id. result: "id" for the new id, or "None".
add_browser_profile(tbl, id, name) ==
    LET storage_path == "browser_data/" \o safe_name(name)
    IN IF \E existing \in DOMAIN tbl : tbl[existing].name = name
       THEN [tbl |-> tbl, result |-> "None"]
       ELSE [tbl |-> Put(tbl, id, [name |-> name, storage_path |-> storage_path,
                                   is_default |-> FALSE]),
             result |-> "id"]

delete_browser_profile(tbl, profile_id) ==
    IF ~Found(tbl, profile_id)
    THEN [tbl |-> tbl, result |-> "False"]
    ELSE IF tbl[profile_id].is_default
    THEN [tbl |-> tbl, result |-> "False"]
    ELSE [tbl |-> Remove(tbl, {profile_id}), result |-> "True"]

set_default_profile(tbl, profile_id) ==
    LET cleared == [id \in DOMAIN tbl |-> [tbl[id] EXCEPT !.is_default = FALSE]]
    IN [tbl |-> [id \in DOMAIN tbl |->
                    IF id = profile_id
                    THEN [cleared[id] EXCEPT !.is_default = TRUE] ELSE cleared[id]],
        result |-> "True"]

\* ---------------------------------------------------- BrowserProfileManager
\* pm is the manager object (its current_profile_id; current_profile is set
\* together with it), dirs the storage directories that exist under base_dir.
\* profile_id = NoProfile asks for the default profile.
get_or_create_profile(pm, tbl, dirs, profile_id) ==
    LET wanted == IF profile_id = NoProfile THEN get_default_profile(tbl)
                  ELSE profile_id
    IN IF ~Found(tbl, wanted)
       THEN [pm |-> pm, dirs |-> dirs, result |-> "None"]
       ELSE IF pm.current_profile_id = wanted
       THEN [pm |-> pm, dirs |-> dirs, result |-> "profile"]
       ELSE [pm |-> [pm EXCEPT !.current_profile_id = wanted],
             dirs |-> dirs \cup {tbl[wanted].storage_path},
             result |-> "profile"]

delete_profile(pm, tbl, dirs, profile_id, delete_data) ==
    IF pm.current_profile_id = profile_id
    THEN [tbl |-> tbl, dirs |-> dirs, result |-> "False"]
    ELSE LET removed == IF delete_data /\ Found(tbl, profile_id)
                        THEN dirs \ {tbl[profile_id].storage_path} ELSE dirs
             deleted == delete_browser_profile(tbl, profile_id)
         IN [tbl |-> deleted.tbl, dirs |-> removed, result |-> deleted.result]

\* ---------------------------------------------------------------- bookmarks
\* SELECT id FROM bookmarks WHERE url = ?
BookmarksOf(tbl, url) == {id \in DOMAIN tbl : tbl[id].url = url}

is_bookmark_exists(tbl, url) == BookmarksOf(tbl, url) # {}

\* add_bookmark: id is the next AUTOINCREMENT id, existing the row the SELECT
\* returned first when the url is bookmarked. result is the id returned.
add_bookmark(tbl, id, title, url, existing) ==
    IF BookmarksOf(tbl, url) # {}
    THEN [tbl |-> tbl, result |-> existing]
    ELSE [tbl |-> Put(tbl, id, [title |-> title, url |-> url]), result |-> id]

delete_bookmark(tbl, bookmark_id) ==
    [tbl |-> Remove(tbl, {bookmark_id}), result |-> "True"]

\* update_bookmark(bookmark_id, **fields): fields is a record of the arguments
\* that are not None.
update_bookmark(tbl, bookmark_id, fields) ==
    IF DOMAIN fields = {}
    THEN [tbl |-> tbl, result |-> "False"]
    ELSE [tbl |-> [id \in DOMAIN tbl |->
                      IF id = bookmark_id
                      THEN [f \in DOMAIN tbl[id] |->
                               IF f \in DOMAIN fields THEN fields[f] ELSE tbl[id][f]]
                      ELSE tbl[id]],
          result |-> "True"]

\* SimpleBrowserWindow.toggle_bookmark on the page current_url: found is the
\* first bookmark of that url in the listing of get_bookmarks.
toggle_bookmark(tbl, id, current_title, current_url, found) ==
    IF is_bookmark_exists(tbl, current_url)
    THEN delete_bookmark(tbl, found).tbl
    ELSE add_bookmark(tbl, id, current_title, current_url, found).tbl

\* ------------------------------------------------------------ state machine
NoCall == [op |-> "none"]
NoRead == [category_id |-> 0, list_group |-> NULL, rows |-> <<>>, pc |-> "idle",
           creating |-> 0]

\* The categories of an installed store: add_category has run once for each,
\* which numbers them 1, 2, ... in order_index.
InitCategories == [id \in Categories |-> [order_index |-> id, is_active |-> TRUE]]
InitSequences == [clipboard_history |-> 0, pinned_panels |-> 0,
                  categories |-> Cardinality(Categories)]

\* The browser_profiles table as the migration leaves it: the profile 'Default'.
DefaultStoragePath == "browser_data/default"
InitProfiles == (1 :> [name |-> "Default", storage_path |-> DefaultStoragePath,
                       is_default |-> TRUE])
InitAutoincrement == [speed_dials |-> 0, browser_profiles |-> 1, bookmarks |-> 0]

Init ==
    /\ items = <<>>
    /\ sqlite_sequence = 0
    /\ categories = InitCategories
    /\ pinned_panels = <<>>
    /\ clipboard_history = <<>>
    /\ sequences = InitSequences
    /\ committed = [items |-> <<>>, sqlite_sequence |-> 0,
                    categories |-> InitCategories, pinned_panels |-> <<>>,
                    clipboard_history |-> <<>>, sequences |-> InitSequences]
    /\ settings = InitSettings
    /\ browser_config = <<>>
    /\ manager = [home_url |-> NULL]
    /\ now = 0
    /\ speed_dials = <<>>
    /\ browser_profiles = InitProfiles
    /\ bookmarks = <<>>
    /\ autoincrement = InitAutoincrement
    /\ profile_manager = [current_profile_id |-> NoProfile]
    /\ storage = {}
    /\ last = [op |-> "init", category_id |-> 0, list_group |-> NULL,
               result |-> "None", writes |-> 0, failed |-> FALSE, txn |-> "none"]
    /\ pc = "idle"
    /\ call = NoCall
    /\ observed = NoRead

\* The connection as an operation finds it.
Conn ==
    [items |-> items, sqlite_sequence |-> sqlite_sequence, committed |-> committed,
     categories |-> categories, pinned_panels |-> pinned_panels,
     clipboard_history |-> clipboard_history, sequences |-> sequences,
     writes |-> 0, failed |-> FALSE, txn |-> "none"]

\* One whole call of op with outcome r: the tables it leaves, and in last the
\* list it was aimed at (if any), the result the caller saw, the number of write
\* statements it ran, whether a write raised, and how the outermost transaction
\* scope ended.
Returns(op, category_id, list_group, r) ==
    /\ pc = "idle"
    /\ items' = r.c.items
    /\ sqlite_sequence' = r.c.sqlite_sequence
    /\ committed' = r.c.committed
    /\ categories' = r.c.categories
    /\ pinned_panels' = r.c.pinned_panels
    /\ clipboard_history' = r.c.clipboard_history
    /\ sequences' = r.c.sequences
    /\ last' = [op |-> op, category_id |-> category_id, list_group |-> list_group,
                result |-> r.result, writes |-> r.c.writes, failed |-> r.c.failed,
                txn |-> r.c.txn]
    /\ UNCHANGED <<pc, call, observed>>

Call(op, category_id, list_group, r) ==
    /\ Returns(op, category_id, list_group, r)
    /\ UNCHANGED configVars

\* ------------------------------------------------------------------ inputs
ItemIds == 1..MaxItems
Positions == 1..MaxLen
ListCategories == {1}
ListSpecs == {OkSpec, BadTypeSpec}
ReorderErrors == {"none", "shift", "set"}
DeleteErrors == {"none", "delete"}
UpdateErrors == {"none", "rename", "delete"}

\* items_data of at most n dicts of specs, at most one of which the engine refuses.
Valid(items_data) == \A k \in 1..Len(items_data) : items_data[k].type \in ItemTypes
ItemsData(specs, n) ==
    {d \in SeqsUpTo(specs, n) :
        Cardinality({k \in 1..Len(d) : d[k].type \notin ItemTypes}) <= 1}

NotGiven == [given |-> FALSE, items |-> <<>>]
Given(data_set) == {[given |-> TRUE, items |-> d] : d \in data_set}
ReplaceData == {NotGiven} \cup Given(ItemsData(ListSpecs, MaxReplace))

\* The statement io_error names is one the call can reach.
Reaches(old_list_group, new_list_group, data, io_error) ==
    /\ io_error = "rename" => new_list_group \notin {NULL, old_list_group}
    /\ io_error = "delete" => data.given

Fits(items_data) == sqlite_sequence + Len(items_data) <= MaxItems

\* ----------------------------------------------------------------- actions
DeleteItem ==
    \E item_id \in ItemIds :
        Call("delete_item", 0, NULL, delete_item(Conn, item_id))

CreateListIn(category_ids, data_set) ==
    \E category_id \in category_ids, list_name \in ListNames, items_data \in data_set :
        /\ Fits(items_data)
        /\ Call("create_list", category_id, list_name,
                create_list(Conn, category_id, list_name, items_data))

ReorderListItem ==
    \E item_id \in ItemIds, new_orden \in Positions, io_error \in ReorderErrors :
        Call("reorder_list_item", 0, NULL,
             reorder_list_item(Conn, item_id, new_orden, io_error))

\* new_orden is a position of the item's list: 1..N for its N members.
InRange(item_id, new_orden) ==
    /\ item_id \in DOMAIN items
    /\ new_orden >= 1
    /\ new_orden <= Cardinality(ListMembers(items, items[item_id].category_id,
                                            items[item_id].list_group))

ReorderInRange ==
    \E item_id \in ItemIds, new_orden \in Positions, io_error \in ReorderErrors :
        /\ InRange(item_id, new_orden)
        /\ Call("reorder_list_item", 0, NULL,
                reorder_list_item(Conn, item_id, new_orden, io_error))

DeleteListIn(category_ids) ==
    \E category_id \in category_ids, list_group \in ListNames,
       io_error \in DeleteErrors :
        Call("delete_list", category_id, list_group,
             delete_list(Conn, category_id, list_group, io_error))

UpdateListIn(category_ids, data_set) ==
    \E category_id \in category_ids, old_list_group \in ListNames,
       new_list_group \in ListNames \cup {NULL}, data \in data_set,
       io_error \in UpdateErrors :
        /\ Reaches(old_list_group, new_list_group, data, io_error)
        /\ Fits(data.items)
        /\ Call("update_list", category_id, old_list_group,
                update_list(Conn, category_id, old_list_group, new_list_group,
                            data, io_error))

CreateList == CreateListIn(ListCategories, ItemsData(ListSpecs, MaxLen))
DeleteList == DeleteListIn(ListCategories)
UpdateList == UpdateListIn(ListCategories, ReplaceData)

\* The list store: lists of one category.
Next ==
    \/ CreateList
    \/ ReorderListItem
    \/ DeleteItem
    \/ DeleteList
    \/ UpdateList

Spec == Init /\ [][Next]_vars

\* create_list, reorder_list_item (to positions of the list), delete_item and
\* delete_list alone.
NextListOps ==
    \/ CreateList
    \/ ReorderInRange
    \/ DeleteItem
    \/ DeleteList

SpecListOps == Init /\ [][NextListOps]_vars

\* create_list and reorder_list_item to any requested position, also below 1
\* and above the size of the list.
AnyPosition == 0..(MaxLen + 1)

ReorderAnywhere ==
    \E item_id \in ItemIds, new_orden \in AnyPosition, io_error \in ReorderErrors :
        Call("reorder_list_item", 0, NULL,
             reorder_list_item(Conn, item_id, new_orden, io_error))

NextReorder ==
    \/ CreateList
    \/ ReorderAnywhere

SpecReorder == Init /\ [][NextReorder]_vars

\* Lists of both categories, at most MaxReplace long.
CreateNamedList == CreateListIn(Categories, ItemsData(ListSpecs, MaxReplace))
DeleteNamedList == DeleteListIn(Categories)
UpdateNamedList == UpdateListIn(Categories, ReplaceData)

NextNames ==
    \/ CreateNamedList
    \/ DeleteNamedList
    \/ UpdateNamedList

SpecNames == Init /\ [][NextNames]_vars

\* Lists whose items update_item may take out of the list (is_list = False):
\* the row keeps its list_group and its orden_lista.
UnlistItem ==
    \E item_id \in ItemIds :
        Call("update_item", 0, NULL, update_item(Conn, item_id, [is_list |-> FALSE]))

\* update_list that only renames (items_data is None).
RenameList ==
    \E category_id \in ListCategories, old_list_group \in ListNames,
       new_list_group \in ListNames :
        Call("update_list", category_id, old_list_group,
             update_list(Conn, category_id, old_list_group, new_list_group,
                         NotGiven, "none"))

NextFrame ==
    \/ CreateList
    \/ UnlistItem
    \/ ReorderInRange
    \/ DeleteList
    \/ RenameList

SpecFrame == Init /\ [][NextFrame]_vars

\* Lists next to items that are in no list (added alone, or taken out of a
\* list), and reorder_list_item called with any id and position.
AddPlainItem ==
    \E category_id \in ListCategories :
        /\ sqlite_sequence < MaxItems
        /\ Call("add_item", 0, NULL,
                add_item(Conn, category_id, OkSpec, FALSE, NULL, 0))

CreateShortList == CreateListIn(ListCategories, ItemsData({OkSpec}, MaxReplace + 1))

\* reorder_list_item of any id, stored or not, without engine failures; a
\* member of a list is moved to a position of its list.
ReorderAnyItem ==
    \E item_id \in ItemIds, new_orden \in Positions :
        /\ (item_id \in DOMAIN items /\ items[item_id].is_list)
               => InRange(item_id, new_orden)
        /\ Call("reorder_list_item", 0, NULL,
                reorder_list_item(Conn, item_id, new_orden, "none"))

NextNotInList ==
    \/ CreateShortList
    \/ AddPlainItem
    \/ UnlistItem
    \/ ReorderAnyItem

SpecNotInList == Init /\ [][NextNotInList]_vars

\* Renames between the lists of both categories; the new name may be the empty
\* string, which create_list and update_list accept like any other name.
NewNames == ListNames \cup {""}

CreateListToRename == CreateListIn(Categories, ItemsData({OkSpec}, MaxLen))

RenameAnyList ==
    \E category_id \in Categories, old_list_group \in ListNames,
       new_list_group \in NewNames :
        Call("update_list", category_id, old_list_group,
             update_list(Conn, category_id, old_list_group, new_list_group,
                         NotGiven, "none"))

NextRename ==
    \/ CreateListToRename
    \/ RenameAnyList
    \/ DeleteNamedList

SpecRename == Init /\ [][NextRename]_vars

\* Plain items and their contents.
ItemSpecs == {OkSpec, SensitiveSpec, EmptySensitiveSpec}
SensitiveListSpecs == {OkSpec, SensitiveSpec}
Kwargs == {[is_sensitive |-> TRUE],
           [is_sensitive |-> FALSE],
           [content |-> Plain("s")],
           [content |-> Plain("s"), is_sensitive |-> TRUE]}

AddItem ==
    \E category_id \in ListCategories, spec \in ItemSpecs :
        /\ sqlite_sequence < MaxItems
        /\ Call("add_item", 0, NULL, add_item(Conn, category_id, spec, FALSE, NULL, 0))

UpdateItem ==
    \E item_id \in ItemIds, kwargs \in Kwargs :
        Call("update_item", 0, NULL, update_item(Conn, item_id, kwargs))

CreateSensitiveList ==
    CreateListIn(ListCategories, ItemsData(SensitiveListSpecs, MaxReplace))

NextItems ==
    \/ AddItem
    \/ UpdateItem
    \/ CreateSensitiveList

SpecItems == Init /\ [][NextItems]_vars

\* A read: it runs SELECT statements only and hands out what the read
\* operators compute from the tables.
ReadOps == {"get_item", "get_items_by_category", "get_all_items", "get_list_items",
            "search_items"}

ReadItems ==
    \E op \in ReadOps :
        /\ pc = "idle"
        /\ last' = [op |-> op, category_id |-> 0, list_group |-> NULL,
                    result |-> "rows", writes |-> 0, failed |-> FALSE, txn |-> "none"]
        /\ UNCHANGED <<items, sqlite_sequence, committed, pc, call, observed,
                       storeVars, configVars>>

\* Sensitive items written and read back: at most MaxSensitive items, updates
\* that also write back content that already is ciphertext, and the reads.
AddSensitiveItem ==
    \E category_id \in ListCategories, spec \in ItemSpecs :
        /\ sqlite_sequence < MaxSensitive
        /\ Call("add_item", 0, NULL, add_item(Conn, category_id, spec, FALSE, NULL, 0))

WriteBackKwargs == Kwargs \cup {[content |-> encrypt(Plain("t"))]}

UpdateSensitiveItem ==
    \E item_id \in 1..MaxSensitive, kwargs \in WriteBackKwargs :
        Call("update_item", 0, NULL, update_item(Conn, item_id, kwargs))

CreateListToRead ==
    \E items_data \in ItemsData(SensitiveListSpecs, MaxReplace) :
        /\ sqlite_sequence + Len(items_data) <= MaxSensitive
        /\ Call("create_list", 1, "A", create_list(Conn, 1, "A", items_data))

NextReads ==
    \/ AddSensitiveItem
    \/ UpdateSensitiveItem
    \/ CreateListToRead
    \/ ReadItems

SpecReads == Init /\ [][NextReads]_vars

\* Categories, their items and panels, and the clipboard history that refers
\* to the items: at most MaxCascade items, panels and history entries.
AddItemToCategory ==
    \E category_id \in Categories :
        /\ sqlite_sequence < MaxCascade
        /\ Call("add_item", category_id, NULL,
                add_item(Conn, category_id, OkSpec, FALSE, NULL, 0))

CreateListInCategory ==
    \E category_id \in Categories, items_data \in ItemsData({OkSpec}, MaxReplace) :
        /\ sqlite_sequence + Len(items_data) <= MaxCascade
        /\ Call("create_list", category_id, "A",
                create_list(Conn, category_id, "A", items_data))

SavePinnedPanel ==
    \E category_id \in Categories :
        /\ sequences.pinned_panels < MaxCascade
        /\ Call("save_pinned_panel", category_id, NULL,
                save_pinned_panel(Conn, category_id))

\* add_to_history of the content "s" of the item item_id, or of a text that
\* is no item's (NoItem), tick seconds after the previous one.
AddToHistoryIn(item_ids, ticks, max_entries) ==
    \E item_id \in item_ids, tick \in ticks :
        LET content == IF item_id = NoItem THEN "typed" ELSE "s"
            inserted == InsertHistory(Conn, item_id, content, now + tick)
            max_history == get_setting(settings, "max_history", PyInt(DefaultMaxHistory))
        IN \E kept \in SUBSET (DOMAIN inserted.c.clipboard_history) :
              /\ sequences.clipboard_history < max_entries
              /\ IF Raised(inserted.result)
                 THEN kept = {}
                 ELSE IsLatest(inserted.c.clipboard_history, max_history.n, kept)
              /\ Returns("add_to_history", 0, NULL,
                         add_to_history(Conn, settings, item_id, content, now + tick,
                                        kept))
              /\ now' = now + tick
              /\ UNCHANGED <<settings, browser_config, manager, browserVars>>

CopyItem == AddToHistoryIn(0..MaxCascade, {0}, MaxCascade)

DeleteListedItem ==
    \E item_id \in 1..MaxCascade :
        Call("delete_item", 0, NULL, delete_item(Conn, item_id))

DeleteCategory ==
    \E category_id \in Categories :
        Call("delete_category", category_id, NULL, delete_category(Conn, category_id))

NextCascade ==
    \/ AddItemToCategory
    \/ CreateListInCategory
    \/ SavePinnedPanel
    \/ CopyItem
    \/ DeleteListedItem
    \/ DeleteNamedList
    \/ DeleteCategory

SpecCascade == Init /\ [][NextCascade]_vars

\* The categories and their order: at most MaxCategories categories ever.
CategoryIds == 1..MaxCategories

\* An ordered snapshot of category ids, possibly stale: no id twice.
IdSequences ==
    {ids \in SeqsUpTo(CategoryIds, MaxCategories) :
        \A j, k \in 1..Len(ids) : j # k => ids[j] # ids[k]}

AddCategory ==
    /\ sequences.categories < MaxCategories
    /\ Call("add_category", 0, NULL, add_category(Conn))

\* Hiding and showing again the first category.
UpdateCategory ==
    \E category_id \in ListCategories, is_active \in BOOLEAN :
        Call("update_category", category_id, NULL,
             update_category(Conn, category_id, is_active))

DeleteAnyCategory ==
    \E category_id \in CategoryIds :
        Call("delete_category", category_id, NULL, delete_category(Conn, category_id))

\* No statement raises, or the last one does.
ReorderCategories ==
    \E category_ids \in IdSequences, io_error \in 0..MaxCategories :
        /\ io_error \in {0, Len(category_ids)}
        /\ Call("reorder_categories", 0, NULL,
                reorder_categories(Conn, category_ids, io_error))

NextCategories ==
    \/ AddCategory
    \/ UpdateCategory
    \/ DeleteAnyCategory
    \/ ReorderCategories

SpecCategories == Init /\ [][NextCategories]_vars

\* set_setting(key, value) for a key and a value of the given sets.
SetSettingIn(keys, values) ==
    \E key \in keys, value \in values :
        /\ pc = "idle"
        /\ settings' = set_setting(settings, key, value)
        /\ last' = [op |-> "set_setting", category_id |-> 0, list_group |-> NULL,
                    result |-> "None", writes |-> 1, failed |-> FALSE, txn |-> "none"]
        /\ UNCHANGED <<items, sqlite_sequence, committed, pc, call, observed,
                       storeVars, browser_config, manager, now, browserVars>>

\* The settings the settings window saves: a key with a default row, a key
\* without one, and values of every JSON type it stores.
SettingKeys == {"theme", "max_history", "minimize_to_tray"}
SettingValues == {PyStr("dark"), PyStr("light"), PyStr("1"), PyInt(1), PyBool(TRUE),
                  PyNone}
SetSetting == SetSettingIn(SettingKeys, SettingValues)

NextSettings == SetSetting

SpecSettings == Init /\ [][NextSettings]_vars

\* The embedded browser's configuration, written by the settings dialog and
\* by SimpleBrowserManager.
HomeUrls == {"https://docs.python.org", "https://www.wikipedia.org"}
Configs ==
    {[home_url |-> url] : url \in HomeUrls}
    \cup {[home_url |-> url, width |-> width, height |-> height] :
             url \in HomeUrls, width \in {500, 700}, height \in {700, 900}}

\* A call on the browser configuration: what it returned, the table and the
\* manager it leaves.
BrowserCall(op, result, tbl, mgr) ==
    /\ pc = "idle"
    /\ browser_config' = tbl
    /\ manager' = mgr
    /\ last' = [op |-> op, category_id |-> 0, list_group |-> NULL,
                result |-> result, writes |-> 0, failed |-> FALSE, txn |-> "none"]
    /\ UNCHANGED <<items, sqlite_sequence, committed, pc, call, observed,
                   storeVars, settings, now, browserVars>>

SaveBrowserConfig ==
    \E config \in Configs, io_error \in {"none", "write"} :
        LET saved == save_browser_config(browser_config, config, io_error)
        IN BrowserCall("save_browser_config", saved.result, saved.tbl, manager)

GetBrowserConfig ==
    LET got == get_browser_config(browser_config, "none")
    IN BrowserCall("get_browser_config", "config", got.tbl, manager)

SetHomeUrl ==
    \E url \in HomeUrls :
        LET set == set_home_url(manager, browser_config, url)
        IN BrowserCall("set_home_url", set.result, set.tbl, set.mgr)

LoadHomeUrl ==
    LET loaded == load_home_url(manager, browser_config)
    IN BrowserCall("load_home_url", loaded.result, loaded.tbl, loaded.mgr)

NextBrowser ==
    \/ SaveBrowserConfig
    \/ GetBrowserConfig
    \/ SetHomeUrl
    \/ LoadHomeUrl

SpecBrowser == Init /\ [][NextBrowser]_vars

\* The clipboard history under a cap the settings window changes: MaxHistory
\* entries, two of which may fall in the same second.
HistoryCaps == {PyInt(1), PyInt(2)}
SetMaxHistory == SetSettingIn({"max_history"}, HistoryCaps)
AddToHistory == AddToHistoryIn({NoItem}, {0, 1}, MaxHistory)

NextHistory ==
    \/ SetMaxHistory
    \/ AddToHistory

SpecHistory == Init /\ [][NextHistory]_vars

\* A call on the embedded browser's tables: last records it, the item store and
\* the settings stay as they are.
BrowserStoreCall(op, result) ==
    /\ pc = "idle"
    /\ last' = [op |-> op, category_id |-> 0, list_group |-> NULL,
                result |-> result, writes |-> 0, failed |-> FALSE, txn |-> "none"]
    /\ UNCHANGED <<items, sqlite_sequence, committed, pc, call, observed,
                   storeVars, settings, browser_config, manager, now>>

\* Speed dials: at most MaxDials are ever added; positions asked for reach
\* from below 0 to above the number of dials.
DialIds == 1..MaxDials
DialPositions == (0 - 1)..(MaxDials + 1)

AddSpeedDial ==
    /\ autoincrement.speed_dials < MaxDials
    /\ LET id == autoincrement.speed_dials + 1
       IN /\ speed_dials' = add_speed_dial(speed_dials, id)
          /\ autoincrement' = [autoincrement EXCEPT !.speed_dials = id]
    /\ BrowserStoreCall("add_speed_dial", "id")
    /\ UNCHANGED <<browser_profiles, bookmarks, profile_manager, storage>>

DeleteSpeedDial ==
    \E speed_dial_id \in DialIds :
        \E listing \in get_speed_dials(DeleteDial(speed_dials, speed_dial_id)) :
            LET r == delete_speed_dial(speed_dials, speed_dial_id, listing)
            IN /\ speed_dials' = r.tbl
               /\ BrowserStoreCall("delete_speed_dial", r.result)
               /\ UNCHANGED <<browser_profiles, bookmarks, autoincrement,
                              profile_manager, storage>>

ReorderSpeedDial ==
    \E speed_dial_id \in DialIds, new_position \in DialPositions :
        \E listing \in get_speed_dials(SetPosition(speed_dials, speed_dial_id,
                                                   new_position)) :
            LET r == reorder_speed_dial(speed_dials, speed_dial_id, new_position,
                                        listing)
            IN /\ speed_dials' = r.tbl
               /\ BrowserStoreCall("reorder_speed_dial", r.result)
               /\ UNCHANGED <<browser_profiles, bookmarks, autoincrement,
                              profile_manager, storage>>

NextSpeedDials ==
    \/ AddSpeedDial
    \/ DeleteSpeedDial
    \/ ReorderSpeedDial

SpecSpeedDials == Init /\ [][NextSpeedDials]_vars

\* Bookmarks: at most MaxBookmarks rows are ever inserted.
BookmarkIds == 1..MaxBookmarks
Urls == {"https://docs.python.org", "https://www.wikipedia.org"}
Titles == {"Python", "Wikipedia"}
BookmarkFields == {[title |-> title] : title \in Titles}
                  \cup {[url |-> url] : url \in Urls}
                  \cup {<<>>}

\* A bookmark of url when there is one (whichever the engine returns first),
\* otherwise any id: it is not used then.
FirstOf(tbl, url) ==
    IF BookmarksOf(tbl, url) # {} THEN BookmarksOf(tbl, url) ELSE {0}

AddBookmark ==
    \E title \in Titles, url \in Urls :
        \E existing \in FirstOf(bookmarks, url) :
            /\ autoincrement.bookmarks < MaxBookmarks
            /\ LET id == autoincrement.bookmarks + 1
                   r == add_bookmark(bookmarks, id, title, url, existing)
               IN /\ bookmarks' = r.tbl
                  /\ autoincrement' = IF is_bookmark_exists(bookmarks, url)
                                      THEN autoincrement
                                      ELSE [autoincrement EXCEPT !.bookmarks = id]
                  /\ BrowserStoreCall("add_bookmark", "id")
            /\ UNCHANGED <<speed_dials, browser_profiles, profile_manager, storage>>

UpdateBookmark ==
    \E bookmark_id \in BookmarkIds, fields \in BookmarkFields :
        LET r == update_bookmark(bookmarks, bookmark_id, fields)
        IN /\ bookmarks' = r.tbl
           /\ BrowserStoreCall("update_bookmark", r.result)
           /\ UNCHANGED <<speed_dials, browser_profiles, autoincrement,
                          profile_manager, storage>>

DeleteBookmark ==
    \E bookmark_id \in BookmarkIds :
        LET r == delete_bookmark(bookmarks, bookmark_id)
        IN /\ bookmarks' = r.tbl
           /\ BrowserStoreCall("delete_bookmark", r.result)
           /\ UNCHANGED <<speed_dials, browser_profiles, autoincrement,
                          profile_manager, storage>>

NextBookmarks ==
    \/ AddBookmark
    \/ UpdateBookmark
    \/ DeleteBookmark

SpecBookmarks == Init /\ [][NextBookmarks]_vars

\* Browser profiles: at most MaxProfiles rows are ever inserted; the ids asked
\* for include one that is never stored.
ProfileIds == 1..(MaxProfiles + 1)
ProfileNames == {"Default", "Work", "work", "My Work"}

AddBrowserProfile ==
    \E name \in ProfileNames :
        /\ autoincrement.browser_profiles < MaxProfiles
        /\ LET id == autoincrement.browser_profiles + 1
               r == add_browser_profile(browser_profiles, id, name)
           IN /\ browser_profiles' = r.tbl
              /\ autoincrement' = IF r.result = "None" THEN autoincrement
                                  ELSE [autoincrement EXCEPT !.browser_profiles = id]
              /\ BrowserStoreCall("add_browser_profile", r.result)
        /\ UNCHANGED <<speed_dials, bookmarks, profile_manager, storage>>

DeleteBrowserProfile ==
    \E profile_id \in ProfileIds :
        LET r == delete_browser_profile(browser_profiles, profile_id)
        IN /\ browser_profiles' = r.tbl
           /\ BrowserStoreCall("delete_browser_profile", r.result)
           /\ UNCHANGED <<speed_dials, bookmarks, autoincrement, profile_manager,
                          storage>>

SetDefaultProfile ==
    \E profile_id \in ProfileIds :
        LET r == set_default_profile(browser_profiles, profile_id)
        IN /\ browser_profiles' = r.tbl
           /\ BrowserStoreCall("set_default_profile", r.result)
           /\ UNCHANGED <<speed_dials, bookmarks, autoincrement, profile_manager,
                          storage>>

NextProfiles ==
    \/ AddBrowserProfile
    \/ DeleteBrowserProfile
    \/ SetDefaultProfile

SpecProfiles == Init /\ [][NextProfiles]_vars

\* The profile manager: profiles are created, loaded (which creates their
\* storage directory and makes them current) and deleted through it.
GetOrCreateProfile ==
    \E profile_id \in ProfileIds \cup {NoProfile} :
        LET r == get_or_create_profile(profile_manager, browser_profiles, storage,
                                       profile_id)
        IN /\ profile_manager' = r.pm
           /\ storage' = r.dirs
           /\ BrowserStoreCall("get_or_create_profile", r.result)
           /\ UNCHANGED <<speed_dials, browser_profiles, bookmarks, autoincrement>>

DeleteProfile ==
    \E profile_id \in ProfileIds, delete_data \in BOOLEAN :
        LET r == delete_profile(profile_manager, browser_profiles, storage,
                                profile_id, delete_data)
        IN /\ browser_profiles' = r.tbl
           /\ storage' = r.dirs
           /\ BrowserStoreCall("delete_profile", r.result)
           /\ UNCHANGED <<speed_dials, bookmarks, autoincrement, profile_manager>>

NextProfileManager ==
    \/ AddBrowserProfile
    \/ GetOrCreateProfile
    \/ DeleteProfile

SpecProfileManager == Init /\ [][NextProfileManager]_vars

\* ------------------------------------------------- statement by statement
\* create_list and reorder_list_item one statement at a time, with a second
\* thread reading through the same connection (check_same_thread=False)
\* between any two statements.
Done(op, category_id, list_group, result, writes, failed, txn) ==
    /\ pc' = "idle"
    /\ call' = NoCall
    /\ last' = [op |-> op, category_id |-> category_id, list_group |-> list_group,
                result |-> result, writes |-> writes, failed |-> failed, txn |-> txn]

BeginCreateList ==
    \E category_id \in ListCategories, list_name \in ListNames,
       items_data \in ItemsData(ListSpecs, MaxLen) :
        /\ pc = "idle"
        /\ Fits(items_data)
        /\ UNCHANGED <<items, sqlite_sequence, committed, observed, storeVars, configVars>>
        /\ IF \/ Len(items_data) < 1
              \/ ~is_list_name_unique(items, category_id, list_name, NULL)
           THEN Done("create_list", category_id, list_name, "ValueError", 0, FALSE,
                     "none")
           ELSE /\ pc' = "create_list"
                /\ call' = [op |-> "create_list", category_id |-> category_id,
                            list_name |-> list_name, items_data |-> items_data,
                            orden |-> 1]
                /\ UNCHANGED last

InsertNext ==
    /\ pc = "create_list"
    /\ call.orden <= Len(call.items_data)
    /\ LET r == add_item(Conn, call.category_id, call.items_data[call.orden], TRUE,
                         call.list_name, call.orden)
           t == transaction(r)
       IN IF Raised(r.result)
          THEN /\ items' = t.c.items
               /\ sqlite_sequence' = t.c.sqlite_sequence
               /\ committed' = t.c.committed
               /\ Done("create_list", call.category_id, call.list_name, t.result,
                       call.orden - 1, TRUE, "rollback")
          ELSE /\ items' = r.c.items
               /\ sqlite_sequence' = r.c.sqlite_sequence
               /\ committed' = r.c.committed
               /\ call' = [call EXCEPT !.orden = @ + 1]
               /\ UNCHANGED <<pc, last>>
    /\ UNCHANGED <<observed, storeVars, configVars>>

EndCreateList ==
    /\ pc = "create_list"
    /\ call.orden > Len(call.items_data)
    /\ committed' = Commit(Conn).committed
    /\ Done("create_list", call.category_id, call.list_name, "ids",
            Len(call.items_data), FALSE, "commit")
    /\ UNCHANGED <<items, sqlite_sequence, observed, storeVars, configVars>>

\* The first statement of a reorder that gets past its early returns.
BeginReorder ==
    \E item_id \in ItemIds, new_orden \in Positions :
        /\ pc = "idle"
        /\ InRange(item_id, new_orden)
        /\ items[item_id].is_list
        /\ items[item_id].orden_lista # new_orden
        /\ items' = ShiftRange(items, items[item_id].category_id,
                               items[item_id].list_group, new_orden,
                               items[item_id].orden_lista)
        /\ pc' = "reorder_list_item"
        /\ call' = [op |-> "reorder_list_item", item_id |-> item_id,
                    new_orden |-> new_orden]
        /\ UNCHANGED <<sqlite_sequence, committed, last, observed, storeVars, configVars>>

EndReorder ==
    /\ pc = "reorder_list_item"
    /\ items' = SetOrden(items, call.item_id, call.new_orden)
    /\ committed' = [committed EXCEPT !.items = items']
    /\ Done("reorder_list_item", 0, NULL, "True", 2, FALSE, "commit")
    /\ UNCHANGED <<sqlite_sequence, observed, storeVars, configVars>>

\* get_list_items from the other thread.
Reader ==
    \E category_id \in ListCategories, list_group \in ListNames :
        /\ observed' = [category_id |-> category_id, list_group |-> list_group,
                        rows |-> get_list_items(items, category_id, list_group),
                        pc |-> pc,
                        creating |-> IF /\ pc = "create_list"
                                        /\ call.category_id = category_id
                                        /\ call.list_name = list_group
                                     THEN Len(call.items_data) ELSE 0]
        /\ UNCHANGED <<items, sqlite_sequence, committed, last, pc, call, storeVars,
                       configVars>>

NextThreads ==
    \/ BeginCreateList
    \/ InsertNext
    \/ EndCreateList
    \/ BeginReorder
    \/ EndReorder
    \/ Reader

SpecThreads == Init /\ [][NextThreads]_vars

\* ------------------------------------------------------------------ claims
\* The positions of the members of (category_id, list_group) are exactly 1..N.
Dense(tbl, category_id, list_group) ==
    LET members == ListMembers(tbl, category_id, list_group)
    IN {tbl[id].orden_lista : id \in members} = 1..Cardinality(members)

\* The rows of the members of (category_id, list_group), by id.
ListRows(tbl, category_id, list_group) ==
    [id \in ListMembers(tbl, category_id, list_group) |-> tbl[id]]

\* C1: after any sequence of create_list, reorder_list_item, delete_item and
\* delete_list calls, the orden_lista values of the is_list members of every
\* (category_id, list_group) are exactly {1..N}, N the number of members.
C1_OrderingInvariant ==
    \A category_id \in Categories, list_group \in ListNames :
        Dense(items, category_id, list_group)

\* C2: when an insert of create_list fails and create_list raises, no item of
\* that list is persisted in the category.
C2_CreateListAllOrNothing ==
    (last.op = "create_list" /\ last.failed)
        => /\ Raised(last.result)
           /\ ListMembers(items, last.category_id, last.list_group) = {}
           /\ ListMembers(committed.items, last.category_id, last.list_group) = {}

\* C3: on a list with positions exactly 1..N, reorder_list_item(item, new) with
\* 1 <= new <= N and new # old puts the item at new, adds one to the other
\* members in [new, old) when new < old, subtracts one from those in (old, new]
\* when new > old, and leaves the other members where they were.
C3_RepositionCorrect ==
    \A item_id \in DOMAIN items, new_orden \in Positions :
        LET item == items[item_id]
            members == ListMembers(items, item.category_id, item.list_group)
            old_orden == item.orden_lista
            r == reorder_list_item(Conn, item_id, new_orden, "none")
            after == r.c.items
            expected(p) == IF new_orden < old_orden /\ p >= new_orden /\ p < old_orden
                           THEN p + 1
                           ELSE IF new_orden > old_orden /\ p > old_orden
                                   /\ p <= new_orden
                           THEN p - 1
                           ELSE p
        IN (/\ item.is_list
            /\ Dense(items, item.category_id, item.list_group)
            /\ new_orden \in 1..Cardinality(members)
            /\ new_orden # old_orden)
           => /\ r.result = "True"
              /\ DOMAIN after = DOMAIN items
              /\ after[item_id].orden_lista = new_orden
              /\ \A m \in members \ {item_id} :
                    after[m].orden_lista = expected(items[m].orden_lista)
              /\ r.c.committed.items = after

\* A reorder has just moved item 3 of the three-member list A from the end to
\* position 1: the former 1 and 2 are now 2 and 3.
C3_Witness ==
    /\ last.op = "reorder_list_item"
    /\ last.result = "True"
    /\ last.writes = 2
    /\ ListMembers(items, 1, "A") = {1, 2, 3}
    /\ items[3].orden_lista = 1
    /\ items[1].orden_lista = 2
    /\ items[2].orden_lista = 3

\* C4: reorder_list_item(item, new) with new equal to the item's position runs
\* no write statement, leaves every row (and the committed snapshot) as it was
\* and returns True.
C4_NoOpReposition ==
    \A item_id \in DOMAIN items, io_error \in ReorderErrors :
        LET r == reorder_list_item(Conn, item_id, items[item_id].orden_lista, io_error)
        IN items[item_id].is_list
           => /\ r.result = "True"
              /\ r.c.writes = 0
              /\ r.c.items = items
              /\ r.c.committed = committed

\* A reorder of a list member to the position it already had has returned.
C4_Witness ==
    /\ last.op = "reorder_list_item"
    /\ last.result = "True"
    /\ last.writes = 0
    /\ \E item_id \in DOMAIN items : items[item_id].is_list

\* C7: when the body of a transaction scope raises, every write made inside the
\* scope is rolled back: the tables and the committed snapshot are those of the
\* moment the scope was entered.
C7_TransactionScope ==
    [][last'.txn = "rollback" => (items' = items /\ committed' = committed)]_vars

\* C8: when a write fails inside create_list, reorder_list_item, delete_list or
\* update_list, the caller gets a raised error, not a normal return.
C8_WriteFailurePropagates ==
    (last.op \in {"create_list", "reorder_list_item", "delete_list", "update_list"}
     /\ last.failed)
        => Raised(last.result)

\* C9: when update_list does not succeed, the members of the list (ids,
\* list_group, contents, positions) are the same as before the call.
C9_UpdateListNoPartialState ==
    [][(last'.op = "update_list" /\ last'.result # "True")
       => ListRows(items', last'.category_id, last'.list_group)
          = ListRows(items, last'.category_id, last'.list_group)]_vars

\* C5: create_list with a name a list of the same category already has fails
\* and persists nothing; with a name free in that category (used in another or
\* not) it succeeds; update_list renaming a list to its own name succeeds and
\* changes nothing.
C5_NameUniqueness ==
    /\ \A category_id \in Categories, list_name \in ListNames,
          items_data \in ItemsData(ListSpecs, MaxReplace) :
          LET r == create_list(Conn, category_id, list_name, items_data)
              used == ListMembers(items, category_id, list_name) # {}
          IN /\ used => /\ r.result = "ValueError"
                        /\ r.c.items = items
                        /\ r.c.committed = committed
             /\ (~used /\ Len(items_data) >= 1 /\ Valid(items_data))
                   => /\ r.result = "ids"
                      /\ Cardinality(ListMembers(r.c.items, category_id, list_name))
                         = Len(items_data)
                      /\ r.c.committed.items = r.c.items
    /\ \A category_id \in Categories, list_name \in ListNames :
          LET r == update_list(Conn, category_id, list_name, list_name, NotGiven,
                               "none")
          IN r.result = "True" /\ r.c.items = items

\* A create_list has just succeeded with a name that a list of the other
\* category has too.
C5_Witness ==
    /\ last.op = "create_list"
    /\ last.result = "ids"
    /\ ListMembers(items, last.category_id, last.list_group) # {}
    /\ \E other \in Categories \ {last.category_id} :
          ListMembers(items, other, last.list_group) # {}

\* C6: a get_list_items that runs between the statements of a create_list or a
\* reorder_list_item never returns a list in which a position of 1..N is shared
\* or missing, nor only some of the items being created.
C6_NoTornRead ==
    /\ \A k \in 1..Len(observed.rows) : observed.rows[k].orden_lista = k
    /\ observed.creating > 0 => Len(observed.rows) \in {0, observed.creating}

\* C10: every persisted item with is_sensitive set and non-empty content holds
\* ciphertext.
C10_SensitiveIsCiphertext ==
    \A item_id \in DOMAIN items :
        (items[item_id].is_sensitive /\ Truthy(items[item_id].content))
            => is_encrypted(items[item_id].content)

\* What a read operation can return in the current state, over its arguments.
SearchQueries == {"", "s"}
ReadResults(op) ==
    CASE op = "get_item" -> {get_item(items, item_id) : item_id \in ItemIds}
      [] op = "get_items_by_category" ->
            {get_items_by_category(items, category_id) : category_id \in Categories}
      [] op = "get_all_items" ->
            {get_all_items(items, categories, include_inactive) :
                include_inactive \in BOOLEAN}
      [] op = "get_list_items" ->
            {get_list_items(items, category_id, list_group) :
                category_id \in Categories, list_group \in ListNames}
      [] OTHER ->
            {search_items(items, categories, search_query) :
                search_query \in SearchQueries}

\* C11: no read operation that returns items (get_item, get_items_by_category,
\* get_all_items, get_list_items, search_items) hands out the content of a
\* sensitive item as ciphertext.
C11_ReadsReturnPlaintext ==
    last.op \in ReadOps =>
        \A rows \in ReadResults(last.op) : \A k \in 1..Len(rows) :
            (items[rows[k].id].is_sensitive /\ Truthy(items[rows[k].id].content))
                => ~is_encrypted(rows[k].content)

\* C12: whatever update_item calls were made (also with content that already is
\* ciphertext), no persisted content is an encryption of ciphertext.
C12_NoDoubleEncryption ==
    \A item_id \in DOMAIN items : items[item_id].content.layers <= 1

\* An update_item has returned and a sensitive item holds, encrypted once, the
\* ciphertext that was written back to it.
C12_Witness ==
    /\ last.op = "update_item"
    /\ \E item_id \in DOMAIN items :
          /\ items[item_id].is_sensitive
          /\ items[item_id].content = encrypt(Plain("t"))

\* rows holds exactly the rows ids, each once, an undecryptable sensitive row
\* with the placeholder as content and every other row with its normal content.
ReturnsEvery(rows, ids) ==
    /\ Len(rows) = Cardinality(ids)
    /\ {rows[k].id : k \in 1..Len(rows)} = ids
    /\ \A k \in 1..Len(rows) :
          LET row == items[rows[k].id]
          IN rows[k].content =
                IF ~(row.is_sensitive /\ Truthy(row.content)) THEN row.content
                ELSE IF is_encrypted(row.content) THEN Plain(row.content.text)
                ELSE Plain("[DECRYPTION ERROR]")

\* C15: get_item, get_items_by_category, get_all_items and get_list_items
\* return every matching row, an undecryptable sensitive row with the content
\* "[DECRYPTION ERROR]" and the others with their normal content.
C15_DecryptionFailureIsPerRow ==
    /\ \A item_id \in ItemIds :
          ReturnsEvery(get_item(items, item_id), {item_id} \cap DOMAIN items)
    /\ \A category_id \in Categories :
          ReturnsEvery(get_items_by_category(items, category_id),
                       {id \in DOMAIN items : items[id].category_id = category_id})
    /\ \A include_inactive \in BOOLEAN :
          ReturnsEvery(get_all_items(items, categories, include_inactive),
                       {id \in DOMAIN items :
                            \/ include_inactive
                            \/ categories[items[id].category_id].is_active})
    /\ \A category_id \in Categories, list_group \in ListNames :
          ReturnsEvery(get_list_items(items, category_id, list_group),
                       {id \in DOMAIN items :
                            /\ items[id].category_id = category_id
                            /\ items[id].list_group = list_group
                            /\ items[id].is_list
                            /\ items[id].is_active})

\* A read has returned while category 1 holds a sensitive row whose content is
\* not ciphertext next to a sensitive row that decrypts: the read hands out the
\* placeholder for the one and the plaintext for the other.
C15_Witness ==
    /\ last.op = "get_items_by_category"
    /\ \E bad, good \in DOMAIN items :
          /\ items[bad].is_sensitive /\ items[bad].content = Plain("s")
          /\ items[good].is_sensitive /\ items[good].content = encrypt(Plain("s"))
          /\ \E j, k \in 1..Len(get_items_by_category(items, 1)) :
                LET rows == get_items_by_category(items, 1)
                IN /\ rows[j].id = bad /\ rows[j].content = DECRYPTION_ERROR
                   /\ rows[k].id = good /\ rows[k].content = Plain("s")

\* C13: after delete_category(c) no item and no pinned panel of category c
\* remains; and when delete_item, delete_list or delete_category deletes items,
\* every clipboard-history row is still there, with a null item reference if
\* its item was deleted and its reference unchanged otherwise.
C13_CascadeDelete ==
    [][last'.op \in {"delete_item", "delete_list", "delete_category"}
       => /\ last'.op = "delete_category"
             => /\ \A id \in DOMAIN items' : items'[id].category_id # last'.category_id
                /\ \A p \in DOMAIN pinned_panels' :
                      pinned_panels'[p].category_id # last'.category_id
          /\ DOMAIN clipboard_history' = DOMAIN clipboard_history
          /\ \A h \in DOMAIN clipboard_history :
                clipboard_history'[h] =
                    IF clipboard_history[h].item_id \in DOMAIN items'
                    THEN clipboard_history[h]
                    ELSE [clipboard_history[h] EXCEPT !.item_id = NoItem]]_vars

\* delete_category has just removed a category that had an item and a panel,
\* and a history row that referred to an item is there with a null reference.
C13_Witness ==
    /\ last.op = "delete_category"
    /\ sqlite_sequence > 0
    /\ sequences.pinned_panels > 0
    /\ items = <<>>
    /\ pinned_panels = <<>>
    /\ \E h \in DOMAIN clipboard_history :
          /\ clipboard_history[h].content = "s"
          /\ clipboard_history[h].item_id = NoItem

\* C14: when add_to_history returns, the clipboard history holds at most cap
\* entries (cap the max_history setting): one more than before if that is
\* within the cap, else exactly cap, and no evicted entry has a later copied_at
\* than an entry that remains.
C14_HistoryBound ==
    [][(last'.op = "add_to_history" /\ last'.result = "id")
       => LET cap == get_setting(settings, "max_history", PyInt(DefaultMaxHistory)).n
              before == DOMAIN clipboard_history
              after == DOMAIN clipboard_history'
              new == sequences'.clipboard_history
              copied_at(h) == IF h = new THEN now' ELSE clipboard_history[h].copied_at
          IN /\ Cardinality(after) <= cap
             /\ Cardinality(after) = IF Cardinality(before) + 1 <= cap
                                     THEN Cardinality(before) + 1 ELSE cap
             /\ after \subseteq before \cup {new}
             /\ \A k \in after, e \in (before \cup {new}) \ after :
                   copied_at(k) >= copied_at(e)]_vars

\* More add_to_history calls than the cap of 2 have returned, the last one a
\* second after the one before, and exactly the cap remain, the newest among
\* them.
C14_Witness ==
    /\ last.op = "add_to_history"
    /\ get_setting(settings, "max_history", PyInt(DefaultMaxHistory)) = PyInt(2)
    /\ sequences.clipboard_history = MaxHistory
    /\ Cardinality(DOMAIN clipboard_history) = 2
    /\ MaxHistory \in DOMAIN clipboard_history
    /\ \A h \in DOMAIN clipboard_history : h # MaxHistory
          => clipboard_history[h].copied_at < clipboard_history[MaxHistory].copied_at

\* C16: after reorder_categories(ids), for every ids without repetition (also
\* one that omits categories or names deleted ones), get_categories lists the
\* categories named in ids in the relative order of ids; and when one of its
\* UPDATE statements raises, reorder_categories raises and no category has a
\* new order_index.
C16_ReorderCategories ==
    \A category_ids \in IdSequences :
    \A io_error \in 0..Len(category_ids) :
    \A r \in {reorder_categories(Conn, category_ids, io_error)} :
        LET position(id) == CHOOSE k \in 1..Len(category_ids) : category_ids[k] = id
            named == {category_ids[k] : k \in 1..Len(category_ids)}
        IN /\ io_error = 0
              => /\ r.result = "None"
                 /\ r.c.committed.categories = r.c.categories
                 /\ \A include_inactive \in BOOLEAN :
                    \A listing \in get_categories(r.c.categories, include_inactive) :
                    \A j, k \in 1..Len(listing) :
                        (j < k /\ listing[j] \in named /\ listing[k] \in named)
                            => position(listing[j]) < position(listing[k])
           /\ io_error \in 1..Len(category_ids)
              => /\ Raised(r.result)
                 /\ r.c.categories = categories
                 /\ r.c.committed.categories = committed.categories

\* reorder_categories has returned after a snapshot that reversed the three
\* categories: get_categories lists 3, 2, 1.
C16_Witness ==
    /\ last.op = "reorder_categories"
    /\ last.result = "None"
    /\ last.writes = 3
    /\ get_categories(categories, FALSE) = {<<3, 2, 1>>}

\* The settings table with the stored value of key replaced by a text that is
\* not JSON (the bare word dark).
Undecodable(tbl, key) ==
    [id \in DOMAIN tbl |->
        IF tbl[id].key = key THEN [tbl[id] EXCEPT !.value = Literal("dark")]
        ELSE tbl[id]]

\* C17: after set_setting(k, v), get_setting(k, d) returns v, the store holds
\* exactly one row for k, and get_setting of every other key returns what it
\* returned before; for a key without a row, or whose stored value is not JSON,
\* get_setting returns the default d.
C17_SettingsAreAMap ==
    \A key \in SettingKeys, default \in {PyStr("default"), PyNone} :
        /\ \A value \in SettingValues :
           \A after \in {set_setting(settings, key, value)} :
              /\ get_setting(after, key, default) = value
              /\ Cardinality(SettingRows(after, key)) = 1
              /\ \A other \in SettingKeys \ {key} :
                    /\ get_setting(after, other, default)
                       = get_setting(settings, other, default)
                    /\ SettingRows(after, other) = SettingRows(settings, other)
        /\ Cardinality(SettingRows(settings, key)) <= 1
        /\ SettingRows(settings, key) = {}
              => get_setting(settings, key, default) = default
        /\ get_setting(Undecodable(settings, key), key, default) = default

\* set_setting has returned, theme was overwritten and minimize_to_tray, which
\* had no row, was inserted: each has one row and reads back as last set.
C17_Witness ==
    /\ last.op = "set_setting"
    /\ get_setting(settings, "theme", PyNone) = PyStr("light")
    /\ get_setting(settings, "minimize_to_tray", PyNone) = PyBool(TRUE)
    /\ get_setting(settings, "max_history", PyNone) = PyStr("1")
    /\ Cardinality(DOMAIN settings) = Cardinality(SettingKeys)

\* home_url, width and height of a config dict or row.
Shown(config) ==
    [home_url |-> config.home_url, width |-> config.width, height |-> config.height]

\* C18: get_browser_config returns the home_url, width and height written by
\* the most recent save_browser_config that succeeded (a failed one leaves the
\* row as it was), the defaults when nothing was saved, and the store never
\* holds more than one browser_config row.
C18_BrowserConfigRoundTrip ==
    /\ Cardinality(DOMAIN browser_config) <= 1
    /\ Cardinality(DOMAIN get_browser_config(browser_config, "none").tbl) = 1
    /\ browser_config = <<>>
          => Shown(get_browser_config(browser_config, "none").config)
             = Shown(default_config)
    /\ \A config \in Configs :
          LET saved == save_browser_config(browser_config, config, "none")
              failed == save_browser_config(browser_config, config, "write")
              got == get_browser_config(saved.tbl, "none")
          IN /\ saved.result = "True"
             /\ Cardinality(DOMAIN saved.tbl) = 1
             /\ got.tbl = saved.tbl
             /\ got.config.home_url = config.home_url
             /\ got.config.width = DictGet(config, "width", DefaultWidth)
             /\ got.config.height = DictGet(config, "height", DefaultHeight)
             /\ failed.result = "False"
             /\ failed.tbl = browser_config

\* A save_browser_config of a full configuration has returned True over an
\* earlier row, and get_browser_config returns what it wrote.
C18_Witness ==
    /\ last.op = "save_browser_config"
    /\ last.result = "True"
    /\ Shown(get_browser_config(browser_config, "none").config)
       = [home_url |-> "https://docs.python.org", width |-> 700, height |-> 900]
    /\ manager.home_url = "https://www.wikipedia.org"

\* C19: what load_home_url returns is the home_url of the persisted browser
\* configuration.
C19_LoadHomeUrlIsPersisted ==
    last.op = "load_home_url"
        => /\ browser_config # <<>>
           /\ last.result = get_browser_config(browser_config, "none").config.home_url

\* C20: whenever reorder_list_item reports success, whatever position was
\* requested, the positions of every list are exactly 1..N afterwards.
C20_ReorderKeepsPositionsDense ==
    (last.op = "reorder_list_item" /\ last.result = "True")
        => \A category_id \in Categories, list_group \in ListNames :
              Dense(items, category_id, list_group)

\* C21: a list operation aimed at one (category_id, list_group) changes only the
\* is_list = 1 rows of that group. Whatever reorder_list_item, delete_list or
\* update_list is called next, every row outside the target group (another
\* category, another group, or is_list = 0 under the same list_group) is still
\* stored, unchanged, when the call returns.
Untouched(tbl, category_id, list_group) ==
    \A id \in (DOMAIN items) \ ListMembers(items, category_id, list_group) :
        id \in DOMAIN tbl /\ tbl[id] = items[id]

C21_ListOperationsFrame ==
    /\ \A item_id \in DOMAIN items, new_orden \in Positions :
           items[item_id].is_list
               => Untouched(reorder_list_item(Conn, item_id, new_orden, "none").c.items,
                            items[item_id].category_id, items[item_id].list_group)
    /\ \A category_id \in Categories, list_group \in ListNames :
           /\ Untouched(delete_list(Conn, category_id, list_group, "none").c.items,
                        category_id, list_group)
           /\ \A new_list_group \in ListNames :
                  Untouched(update_list(Conn, category_id, list_group, new_list_group,
                                        NotGiven, "none").c.items,
                            category_id, list_group)

\* What a rename of old to new has to leave, r being what update_list returned:
\* a failure without any change if a list named new exists in the category;
\* otherwise success, every member of old under list_group = new at its
\* orden_lista, no list named old, and every other row unchanged.
Renamed(r, category_id, old_list_group, new_list_group) ==
    IF ListMembers(items, category_id, new_list_group) # {}
    THEN r.result = "False" /\ r.c.items = items
    ELSE /\ r.result = "True"
         /\ DOMAIN r.c.items = DOMAIN items
         /\ \A id \in ListMembers(items, category_id, old_list_group) :
                r.c.items[id] = [items[id] EXCEPT !.list_group = new_list_group]
         /\ ListMembers(r.c.items, category_id, old_list_group) = {}
         /\ Untouched(r.c.items, category_id, old_list_group)

\* C22: update_list(category, old, new) with new a non-empty name other than
\* old: if another list named new exists in the category the rename fails and
\* no item changes; otherwise every member of old gets list_group = new with its
\* orden_lista unchanged, no list named old remains, and the members of all
\* other lists are untouched.
C22_RenameList ==
    \A category_id \in Categories, old_list_group \in ListNames,
       new_list_group \in ListNames :
        new_list_group # old_list_group
            => \A r \in {update_list(Conn, category_id, old_list_group,
                                     new_list_group, NotGiven, "none")} :
                   Renamed(r, category_id, old_list_group, new_list_group)

\* A rename has just succeeded on a list of two or more members while the other
\* category holds a list of the old name.
C22_Witness ==
    /\ last.op = "update_list"
    /\ last.result = "True"
    /\ last.writes = 1
    /\ \E list_group \in ListNames \ {last.list_group} :
           /\ Cardinality(ListMembers(items, last.category_id, list_group)) >= 2
           /\ \E category_id \in Categories \ {last.category_id} :
                  ListMembers(items, category_id, last.list_group) # {}

\* C22 as stated, for every new name other than old, the empty string included.
C22_RenameToAnyName ==
    \A category_id \in Categories, old_list_group \in ListNames,
       new_list_group \in NewNames :
        new_list_group # old_list_group
            => \A r \in {update_list(Conn, category_id, old_list_group,
                                     new_list_group, NotGiven, "none")} :
                   Renamed(r, category_id, old_list_group, new_list_group)

\* C23: SimpleBrowserManager.set_home_url changes only the stored home_url:
\* the width, height and visibility flag of the stored browser configuration
\* are after the call what they were before it.
C23_SetHomeUrlKeepsSize ==
    [][(last'.op = "set_home_url" /\ browser_config # <<>>)
          => LET before == get_browser_config(browser_config, "none").config
                 after == get_browser_config(browser_config', "none").config
             IN /\ after.width = before.width
                /\ after.height = before.height
                /\ after.is_visible = before.is_visible]_vars

\* C24: after reorder_speed_dial(id, p) returns True for a stored speed dial and
\* 0 <= p < n, that speed dial is at position p and the other speed dials are in
\* the relative order they had.
SameOrder(before, after, ids) ==
    \A a \in ids, b \in ids :
        before[a].position < before[b].position
            => after[a].position < after[b].position

C24_ReorderSpeedDial ==
    \A speed_dial_id \in DOMAIN speed_dials,
       new_position \in 0..(Cardinality(DOMAIN speed_dials) - 1) :
        \A listing \in get_speed_dials(SetPosition(speed_dials, speed_dial_id,
                                                   new_position)) :
            \A r \in {reorder_speed_dial(speed_dials, speed_dial_id, new_position,
                                         listing)} :
                r.result = "True"
                    => /\ r.tbl[speed_dial_id].position = new_position
                       /\ SameOrder(speed_dials, r.tbl,
                                    (DOMAIN speed_dials) \ {speed_dial_id})

\* C25: after any sequence of add_speed_dial, delete_speed_dial and
\* reorder_speed_dial calls, with any position argument, the positions of the n
\* stored speed dials are exactly 0..n-1, each taken once.
C25_SpeedDialPositionsDense ==
    /\ {speed_dials[id].position : id \in DOMAIN speed_dials}
           = 0..(Cardinality(DOMAIN speed_dials) - 1)
    /\ \A a \in DOMAIN speed_dials, b \in DOMAIN speed_dials :
           speed_dials[a].position = speed_dials[b].position => a = b

\* A reorder_speed_dial call has returned while two or more speed dials are
\* stored and an earlier one has been deleted.
C25_Witness ==
    /\ last.op = "reorder_speed_dial"
    /\ Cardinality(DOMAIN speed_dials) >= 2
    /\ \E id \in DialIds : id < autoincrement.speed_dials /\ id \notin DOMAIN speed_dials

\* C26: starting from the migrated state with one default profile, after any
\* sequence of add_browser_profile, delete_browser_profile and
\* set_default_profile calls, for any profile id, exactly one profile is marked
\* default.
C26_ExactlyOneDefaultProfile ==
    Cardinality({id \in DOMAIN browser_profiles : browser_profiles[id].is_default}) = 1

\* C27: when BrowserProfileManager.delete_profile returns False, nothing was
\* deleted: the rows of browser_profiles and the storage directories on disk
\* are what they were before the call.
C27_FailedDeleteDeletesNothing ==
    \A profile_id \in ProfileIds, delete_data \in BOOLEAN :
        \A r \in {delete_profile(profile_manager, browser_profiles, storage,
                                 profile_id, delete_data)} :
            r.result = "False"
                => /\ r.tbl = browser_profiles
                   /\ r.dirs = storage

\* C28: after any sequence of add_bookmark, update_bookmark and delete_bookmark
\* calls no two bookmarks have the same url; add_bookmark of a bookmarked url
\* adds no row and returns the id of the existing bookmark; and one
\* toggle_bookmark on a bookmarked page leaves the page without a bookmark.
C28_BookmarkUrlsUnique ==
    /\ \A a \in DOMAIN bookmarks, b \in DOMAIN bookmarks :
           bookmarks[a].url = bookmarks[b].url => a = b
    /\ \A url \in Urls, title \in Titles :
        \A existing \in BookmarksOf(bookmarks, url) :
           /\ \A r \in {add_bookmark(bookmarks, autoincrement.bookmarks + 1, title,
                                     url, existing)} :
                  r.tbl = bookmarks /\ r.result \in BookmarksOf(bookmarks, url)
           /\ ~is_bookmark_exists(toggle_bookmark(bookmarks,
                                                  autoincrement.bookmarks + 1,
                                                  title, url, existing), url)

\* C29: when the cap (the max_history setting) is at least 1, the entry
\* add_to_history has just inserted is in the history when the call returns,
\* also when other entries carry the same copied_at.
C29_NewestEntrySurvives ==
    [][(/\ last'.op = "add_to_history"
        /\ last'.result = "id"
        /\ get_setting(settings, "max_history", PyInt(DefaultMaxHistory)).n >= 1)
       => sequences'.clipboard_history \in DOMAIN clipboard_history']_vars

\* C30: reorder_list_item called with an id that references no item, or an
\* item that is not part of a list, returns False and writes nothing: every
\* stored item is unchanged (no statement ran, nothing was committed).
C30_ReorderOutsideListsIsRefused ==
    \A item_id \in ItemIds, new_orden \in AnyPosition, io_error \in ReorderErrors :
        (item_id \notin DOMAIN items \/ ~items[item_id].is_list)
            => \A r \in {reorder_list_item(Conn, item_id, new_orden, io_error)} :
                   /\ r.result = "False"
                   /\ r.c.items = items
                   /\ r.c.committed = committed
                   /\ r.c.writes = 0

\* reorder_list_item has just returned False without reaching a statement
\* while the store holds a list, an item outside of every list that carries a
\* list_group, and an id that references no item.
C30_Witness ==
    /\ last.op = "reorder_list_item"
    /\ last.result = "False"
    /\ ~last.failed
    /\ \E id \in DOMAIN items : items[id].is_list
    /\ \E id \in DOMAIN items : ~items[id].is_list /\ items[id].list_group # NULL
    /\ \E id \in ItemIds : id \notin DOMAIN items

====
